---- MODULE Spec2Model ----
(***************************************************************************)
(* The job orchestrator of server/index_optimized.js: the job map, the     *)
(* upload / status / download / list handlers and the VR180Pipeline that   *)
(* runs in the background of an upload.  The file holds two servers, the   *)
(* optimized one (lines 1-516) and the original one (lines 518-1041); the  *)
(* variable "variant" says which of them is running.                       *)
(*                                                                         *)
(* Node runs one callback at a time and drains the continuations it makes  *)
(* ready before the next one.  An action below is one such callback: the   *)
(* HTTP handler, or the completion of one operation the pipeline awaits    *)
(* (an fs call, an ffmpeg event, a timer), together with everything the    *)
(* code does until it awaits the next one.                                 *)
(*                                                                         *)
(* Progress values are JavaScript numbers; the model records them to the   *)
(* whole percent below (floor), which keeps their order and their bounds.  *)
(***************************************************************************)
EXTENDS Integers, Sequences, FiniteSets, TLC

VARIABLES variant, jobs, pipeline, files, now, response

vars == <<variant, jobs, pipeline, files, now, response>>

----------------------------------------------------------------------------
(* Bounds of the model *)

\* number of uploads that are accepted
MaxJobs == 1
\* most png files fs.readdir finds in the frames directory
MaxFrames == 2
\* number of uploads that are accepted where jobs run side by side (SpecMany)
MaxConcurrent == 2
\* last reading of the clock (SpecFinalize)
MaxTime == 3

JobIds == 1..MaxJobs
ConcurrentIds == 1..MaxConcurrent
\* an id no upload was ever given
UnknownId == MaxJobs + 1
FrameCounts == 0..MaxFrames
\* progress.percent of an ffmpeg 'progress' event; "has" is FALSE when the
\* event carries no percent (undefined or NaN)
PercentValues == {-50, 0, 50, 150}
ProgressEvents ==
    {[has |-> FALSE, percent |-> 0]} \cup {[has |-> TRUE, percent |-> p] : p \in PercentValues}

Variants == {"optimized", "original"}

----------------------------------------------------------------------------
(* Values *)

\* an absent property of a job (completedAt, failedAt, error)
Undefined == <<>>
Defined(v) == <<v>>

Min(a, b) == IF a < b THEN a ELSE b

NoFramesMessage == "No frames extracted from video"
MkdirMessage == "EACCES: permission denied, mkdir"
ReaddirMessage == "ENOENT: no such file or directory, scandir"
FfmpegMessage == "ffmpeg exited with code 1"

\* the paths under outputs/<jobId> that the server makes or tells ffmpeg to
\* write; how many frames ffmpeg left is what fs.readdir finds
OutputDirs == <<"", "frames", "depth", "stereo">>
FramePattern == "frames/frame_%04d.png"
DepthPattern == "depth/depth_%04d.png"
FinalOutput == "final_vr180.mp4"

----------------------------------------------------------------------------
(* The stage lists *)

\* the literal of the job entry, POST /api/upload
NewJobStages ==
    << [name |-> "depth", progress |-> 0, status |-> "pending"],
       [name |-> "stereo", progress |-> 0, status |-> "pending"],
       [name |-> "outpainting", progress |-> 0, status |-> "pending"],
       [name |-> "blur", progress |-> 0, status |-> "pending"],
       [name |-> "upscaling", progress |-> 0, status |-> "pending"] >>

\* a constructor whose list has an entry the job entry's list has not
ConstructorStagesWithFrames ==
    << [name |-> "frames", progress |-> 0, status |-> "pending"],
       [name |-> "depth", progress |-> 0, status |-> "pending"],
       [name |-> "stereo", progress |-> 0, status |-> "pending"],
       [name |-> "outpainting", progress |-> 0, status |-> "pending"],
       [name |-> "blur", progress |-> 0, status |-> "pending"],
       [name |-> "upscaling", progress |-> 0, status |-> "pending"] >>

\* the literal of this.stages, VR180Pipeline constructor
ConstructorStages ==
    << [name |-> "depth", progress |-> 0, status |-> "pending"],
       [name |-> "stereo", progress |-> 0, status |-> "pending"],
       [name |-> "outpainting", progress |-> 0, status |-> "pending"],
       [name |-> "blur", progress |-> 0, status |-> "pending"],
       [name |-> "upscaling", progress |-> 0, status |-> "pending"] >>

\* this.stages.find(s => s.name === stageName): the index, 0 when there is none
FindStage(stages, stageName) ==
    IF \E k \in 1..Len(stages) : stages[k].name = stageName
    THEN CHOOSE k \in 1..Len(stages) :
            /\ stages[k].name = stageName
            /\ \A m \in 1..(k - 1) : stages[m].name # stageName
    ELSE 0

\* an updateProgress without job.lastUpdated = new Date()
UpdateProgressNoTimestamp(S, stageName, progress, status) ==
    LET k == FindStage(S.stages, stageName)
        stages == IF k = 0 THEN S.stages
                  ELSE [S.stages EXCEPT ![k] = [@ EXCEPT !.progress = progress,
                                                         !.status = status]]
    IN [stages |-> stages,
        job |-> [S.job EXCEPT !.stagesIsPipeline = TRUE]]

\* an updateProgress a reader cuts in two: stage.progress is assigned,
\* stage.status not yet
UpdateProgressTorn(S, stageName, progress, status) ==
    LET k == FindStage(S.stages, stageName)
        stages == IF k = 0 THEN S.stages
                  ELSE [S.stages EXCEPT ![k] = [@ EXCEPT !.progress = progress]]
    IN [stages |-> stages,
        job |-> [S.job EXCEPT !.stagesIsPipeline = TRUE,
                              !.lastUpdated = now]]

\* an updateProgress without job.stages = this.stages
UpdateProgressUnpublished(S, stageName, progress, status) ==
    LET k == FindStage(S.stages, stageName)
        stages == IF k = 0 THEN S.stages
                  ELSE [S.stages EXCEPT ![k] = [@ EXCEPT !.progress = progress,
                                                         !.status = status]]
    IN [stages |-> stages,
        job |-> [S.job EXCEPT !.lastUpdated = now]]

\* updateProgress(stageName, progress, status) on the pair S of the
\* pipeline's stage list and the job of the map: the stage found takes the
\* progress and the status, and the job is made to hold the pipeline's list
UpdateProgress(S, stageName, progress, status) ==
    LET k == FindStage(S.stages, stageName)
        stages == IF k = 0 THEN S.stages
                  ELSE [S.stages EXCEPT ![k] = [@ EXCEPT !.progress = progress,
                                                         !.status = status]]
    IN [stages |-> stages,
        job |-> [S.job EXCEPT !.stagesIsPipeline = TRUE,
                              !.lastUpdated = now]]

\* a write is <<stageName, progress, status>>; the calls of updateProgress a
\* callback makes, in order
RECURSIVE Writes(_, _)
Writes(S, ws) ==
    IF ws = <<>> THEN S
    ELSE Writes(UpdateProgress(S, ws[1][1], ws[1][2], ws[1][3]), Tail(ws))

\* job.stages as a reader finds it: the job's own list until the first
\* updateProgress, the pipeline's list from then on
StagesOf(j) ==
    IF jobs[j].stagesIsPipeline THEN pipeline[j].stages ELSE jobs[j].stages

----------------------------------------------------------------------------
(* Program constants that differ between the two servers *)

\* generateDepthMaps: the optimized server processes at most 5 frames
TotalFrames(v, pngFiles) == IF v = "optimized" THEN Min(pngFiles, 5) ELSE pngFiles
\* generateDepthMaps of the original server: batchSize
BatchSize(totalFrames) == Min(5, totalFrames)
StereoSteps(v) == IF v = "optimized" THEN 5 ELSE 10
PanoramaSteps(v) == IF v = "optimized" THEN 5 ELSE 10
BlurSteps(v) == IF v = "optimized" THEN 4 ELSE 8
UpscaleSteps(v) == IF v = "optimized" THEN 5 ELSE 10
\* the progress each inner stage of expandPanorama / upscaleAndEnhance ends at
PanoramaStages == <<60, 100>>
UpscaleStages == <<70, 100>>

----------------------------------------------------------------------------
(* The job map and the pipeline objects *)

EmptyMap == [x \in {} |-> x]

\* a job entry that is queued first and started by a later step
NewJobPending(jobId) ==
    [id |-> jobId,
     uploadTime |-> now,
     status |-> "pending",
     stages |-> NewJobStages,
     stagesIsPipeline |-> FALSE,
     lastUpdated |-> now,
     completedAt |-> Undefined,
     failedAt |-> Undefined,
     error |-> Undefined]

\* the job entry POST /api/upload puts into the map
NewJob(jobId) ==
    [id |-> jobId,
     uploadTime |-> now,
     status |-> "processing",
     stages |-> NewJobStages,
     stagesIsPipeline |-> FALSE,
     lastUpdated |-> now,
     completedAt |-> Undefined,
     failedAt |-> Undefined,
     error |-> Undefined]

\* new VR180Pipeline(jobId, inputPath), and where its processVideo stands:
\* pc names the operation it awaits, i the loop index, phase the inner stage
\* of expandPanorama / upscaleAndEnhance, total the totalFrames of
\* generateDepthMaps; once processVideo has rejected, threw is the method
\* that failed and thrown the message of its error
NewPipeline(jobId) ==
    [jobId |-> jobId,
     stages |-> ConstructorStages,
     pc |-> "new",
     i |-> 0,
     phase |-> 1,
     total |-> 0,
     threw |-> "none",
     thrown |-> "none"]

NoResponse == [op |-> "none", code |-> 0, id |-> 0, body |-> "none"]

\* a .then that finishes the job without the time of completion
ThenHandlerNoTimestamp(job) ==
    [job EXCEPT !.status = "completed"]

\* .then of processVideo in POST /api/upload
ThenHandler(job) ==
    [job EXCEPT !.status = "completed", !.completedAt = Defined(now)]

\* a .catch that records the failure but leaves the message out
CatchHandlerNoMessage(job, message) ==
    [job EXCEPT !.status = "failed", !.failedAt = Defined(now)]

\* .catch of processVideo in POST /api/upload
CatchHandler(job, message) ==
    [job EXCEPT !.status = "failed", !.error = Defined(message),
                !.failedAt = Defined(now)]

\* the pair updateProgress works on
Heap(j) == [stages |-> pipeline[j].stages, job |-> jobs[j]]

\* pipelines that share one stage list: what one writes, all hold
AwaitFromShared(S0, j, ws, pc, i, phase, total) ==
    LET S == Writes(S0, ws)
    IN /\ pipeline' = [b \in DOMAIN pipeline |->
                          IF b = j
                          THEN [pipeline[b] EXCEPT !.stages = S.stages,
                                                   !.pc = pc, !.i = i,
                                                   !.phase = phase,
                                                   !.total = total]
                          ELSE [pipeline[b] EXCEPT !.stages = S.stages]]
       /\ jobs' = [jobs EXCEPT ![j] = S.job]

\* from the pair S0 the pipeline of job j makes the writes ws and awaits the
\* next operation
AwaitFrom(S0, j, ws, pc, i, phase, total) ==
    LET S == Writes(S0, ws)
    IN /\ pipeline' = [pipeline EXCEPT ![j] = [@ EXCEPT !.stages = S.stages,
                                                        !.pc = pc, !.i = i,
                                                        !.phase = phase,
                                                        !.total = total]]
       /\ jobs' = [jobs EXCEPT ![j] = S.job]

Await(j, ws, pc, i, phase, total) == AwaitFrom(Heap(j), j, ws, pc, i, phase, total)

\* the pipeline of job j makes the writes ws and processVideo returns true
Resolve(j, ws) ==
    LET S == Writes(Heap(j), ws)
    IN /\ pipeline' = [pipeline EXCEPT ![j] = [@ EXCEPT !.stages = S.stages,
                                                        !.pc = "resolved"]]
       /\ jobs' = [jobs EXCEPT ![j] = ThenHandler(S.job)]

\* a processVideo that still enters expandPanorama when a method has thrown
RejectAfterNextStart(j, fn, message) ==
    LET S == Writes(Heap(j), << <<"outpainting", 0, "processing">> >>)
    IN /\ pipeline' = [pipeline EXCEPT ![j] = [@ EXCEPT !.stages = S.stages,
                                                        !.pc = "rejected",
                                                        !.threw = fn,
                                                        !.thrown = message]]
       /\ jobs' = [jobs EXCEPT ![j] = CatchHandler(S.job, message)]

\* method fn of the pipeline of job j throws an error with the message; every
\* catch block on the way rethrows it and processVideo rejects
Reject(j, fn, message) ==
    /\ pipeline' = [pipeline EXCEPT ![j] = [@ EXCEPT !.pc = "rejected",
                                                     !.threw = fn,
                                                     !.thrown = message]]
    /\ jobs' = [jobs EXCEPT ![j] = CatchHandler(jobs[j], message)]

\* the first statements of each stage method, up to its first await
ExtractFramesStart == << <<"depth", 10, "processing">> >>
GenerateDepthMapsStart == << <<"depth", 50, "processing">> >>
SynthesizeStereoStart == << <<"stereo", 0, "processing">> >>
\* expandPanorama starting with the name of the stage after its own
ExpandPanoramaStartWrongStage == << <<"blur", 0, "processing">> >>
ExpandPanoramaStart == << <<"outpainting", 0, "processing">> >>
\* applyFoveatedBlur starting the stage after its own as well
ApplyFoveatedBlurStartBoth ==
    << <<"blur", 0, "processing">>, <<"upscaling", 0, "processing">> >>
ApplyFoveatedBlurStart == << <<"blur", 0, "processing">> >>
UpscaleAndEnhanceStart == << <<"upscaling", 0, "processing">> >>

\* synthesizeStereo awaiting something that never calls back
StereoFirstPcNever(v) == "never"

\* what synthesizeStereo awaits first
StereoFirstPc(v) == IF v = "optimized" THEN "stereo" ELSE "stereoReaddir"

Running(j) == j \in DOMAIN jobs

----------------------------------------------------------------------------
(* POST /api/upload *)

\* an upload handler whose job id may be one that is in the map already
UploadAmongReusingIds(ids, hasFile) ==
    /\ UNCHANGED <<variant, files, now>>
    /\ IF ~hasFile
       THEN /\ response' = [op |-> "upload", code |-> 400, id |-> 0,
                            body |-> "No video file uploaded"]
            /\ UNCHANGED <<jobs, pipeline>>
       ELSE \E jobId \in ids :
               /\ jobs' = [k \in DOMAIN jobs \cup {jobId} |->
                              IF k = jobId THEN NewJob(jobId) ELSE jobs[k]]
               /\ pipeline' = [k \in DOMAIN pipeline \cup {jobId} |->
                                  IF k = jobId
                                  THEN [NewPipeline(jobId) EXCEPT !.pc = "initialize"]
                                  ELSE pipeline[k]]
               /\ response' = [op |-> "upload", code |-> 200, id |-> jobId,
                               body |-> "Video uploaded successfully. Processing started."]

\* ids is the set the fresh uuid is drawn from
UploadAmong(ids, hasFile) ==
    /\ UNCHANGED <<variant, files, now>>
    /\ IF ~hasFile
       THEN /\ response' = [op |-> "upload", code |-> 400, id |-> 0,
                            body |-> "No video file uploaded"]
            /\ UNCHANGED <<jobs, pipeline>>
       ELSE LET jobId == Cardinality(DOMAIN jobs) + 1
            IN /\ jobId \in ids
               /\ jobs' = jobs @@ (jobId :> NewJob(jobId))
               \* processVideo runs up to the first mkdir of initialize
               /\ pipeline' = pipeline @@
                      (jobId :> [NewPipeline(jobId) EXCEPT !.pc = "initialize"])
               /\ response' = [op |-> "upload", code |-> 200, id |-> jobId,
                               body |-> "Video uploaded successfully. Processing started."]

Upload(hasFile) == UploadAmong(JobIds, hasFile)

----------------------------------------------------------------------------
(* VR180Pipeline *)

\* one fs.mkdir of initialize returns
MkdirDone(j, ok) ==
    /\ Running(j)
    /\ pipeline[j].pc = "initialize"
    /\ response' = NoResponse
    /\ UNCHANGED <<variant, now>>
    /\ IF ~ok
       THEN /\ Reject(j, "initialize", MkdirMessage)
            /\ UNCHANGED files
       ELSE /\ files' = [files EXCEPT ![j] = @ \cup {OutputDirs[pipeline[j].i + 1]}]
            /\ IF pipeline[j].i + 1 < Len(OutputDirs)
               THEN Await(j, <<>>, "initialize", pipeline[j].i + 1, 1, 0)
               ELSE Await(j, ExtractFramesStart, "extractFrames", 0, 1, 0)

\* 10 + (Math.min(progress.percent || 0, 90) * 0.3)
ExtractProgress(ev) ==
    LET percent == Min(IF ev.has THEN ev.percent ELSE 0, 90)
    IN 10 + ((percent * 3) \div 10)

\* 'progress' of the frame-extraction ffmpeg run
FfmpegProgress(j, ev) ==
    /\ Running(j)
    /\ pipeline[j].pc = "extractFrames"
    /\ Await(j, << <<"depth", ExtractProgress(ev), "processing">> >>,
             "extractFrames", 0, 1, 0)
    /\ response' = NoResponse
    /\ UNCHANGED <<variant, files, now>>

\* 'end' of the frame-extraction ffmpeg run; processVideo goes on into
\* generateDepthMaps up to its fs.readdir
FfmpegEnd(j) ==
    /\ Running(j)
    /\ pipeline[j].pc = "extractFrames"
    /\ files' = [files EXCEPT ![j] = @ \cup {FramePattern}]
    /\ Await(j, << <<"depth", 40, "processing">> >> \o GenerateDepthMapsStart,
             "readdir", 0, 1, 0)
    /\ response' = NoResponse
    /\ UNCHANGED <<variant, now>>

\* 'error' of the frame-extraction ffmpeg run
FfmpegError(j) ==
    /\ Running(j)
    /\ pipeline[j].pc = "extractFrames"
    /\ Reject(j, "extractFrames", FfmpegMessage)
    /\ response' = NoResponse
    /\ UNCHANGED <<variant, files, now>>

\* fs.readdir of generateDepthMaps fails, or returns with pngFiles names
\* that end in .png
ReaddirDone(j, ok, pngFiles) ==
    /\ Running(j)
    /\ pipeline[j].pc = "readdir"
    /\ response' = NoResponse
    /\ UNCHANGED <<variant, files, now>>
    /\ LET totalFrames == TotalFrames(variant, pngFiles)
       IN IF ~ok
          THEN Reject(j, "generateDepthMaps", ReaddirMessage)
          ELSE IF totalFrames = 0
          THEN Reject(j, "generateDepthMaps", NoFramesMessage)
          ELSE Await(j, <<>>, "depthMap", 0, 1, totalFrames)

\* 50 + ((i + 1) / totalFrames) * 50, with done = i + 1 or batchEnd
DepthProgress(done, totalFrames) == 50 + ((done * 50) \div totalFrames)

\* an original server that writes the depth stage completed with every frame
DepthWritesCompletedPerFrame(v, i, totalFrames, ok) ==
    IF v = "optimized"
    THEN IF ok THEN << <<"depth", DepthProgress(i + 1, totalFrames), "processing">> >>
         ELSE <<>>
    ELSE << <<"depth", DepthProgress(i + 1, totalFrames), "completed">> >>

\* the writes generateDepthMaps makes when the depth map of frame i is
\* settled: the optimized server after each depth map made, the original
\* server after the last frame of each batch whether made or not
DepthWrites(v, i, totalFrames, ok) ==
    LET batchStart == (i \div BatchSize(totalFrames)) * BatchSize(totalFrames)
        batchEnd == Min(batchStart + BatchSize(totalFrames), totalFrames)
    IN IF v = "optimized"
       THEN IF ok THEN << <<"depth", DepthProgress(i + 1, totalFrames), "processing">> >>
            ELSE <<>>
       ELSE IF i + 1 = batchEnd
            THEN << <<"depth", DepthProgress(batchEnd, totalFrames), "processing">> >>
            ELSE <<>>

\* a catch block that marks the job failed before the loop goes on
FrameErrorFailsJob(S) ==
    [S EXCEPT !.job = [@ EXCEPT !.status = "failed",
                                !.failedAt = Defined(now)]]

\* the catch block around the depth map of one frame: the error is logged
\* and the loop goes on
FrameError(S) == S

\* a loop without the try / catch around the depth map of one frame
DepthMapDoneUncaught(j, ok) ==
    /\ Running(j)
    /\ pipeline[j].pc = "depthMap"
    /\ response' = NoResponse
    /\ UNCHANGED <<variant, now>>
    /\ LET i == pipeline[j].i
           totalFrames == pipeline[j].total
           ws == DepthWrites(variant, i, totalFrames, ok)
       IN IF ~ok
          THEN /\ Reject(j, "generateDepthMaps", "EACCES: permission denied, open")
               /\ UNCHANGED files
          ELSE /\ files' = [files EXCEPT ![j] = @ \cup {DepthPattern}]
               /\ IF i + 1 < totalFrames
                  THEN AwaitFrom(Heap(j), j, ws, "depthMap", i + 1, 1, totalFrames)
                  ELSE AwaitFrom(Heap(j), j, ws \o << <<"depth", 100, "completed">> >>
                                           \o SynthesizeStereoStart,
                                 StereoFirstPc(variant), 0, 1, 0)

\* createOptimizedDepthMap / createPlaceholderDepthMap of frame i ends or fails
DepthMapDone(j, ok) ==
    /\ Running(j)
    /\ pipeline[j].pc = "depthMap"
    /\ response' = NoResponse
    /\ UNCHANGED <<variant, now>>
    /\ LET i == pipeline[j].i
           totalFrames == pipeline[j].total
           ws == DepthWrites(variant, i, totalFrames, ok)
           S0 == IF ok THEN Heap(j) ELSE FrameError(Heap(j))
       IN /\ files' = [files EXCEPT ![j] =
                          IF ok THEN @ \cup {DepthPattern} ELSE @]
          /\ IF i + 1 < totalFrames
             THEN AwaitFrom(S0, j, ws, "depthMap", i + 1, 1, totalFrames)
             ELSE AwaitFrom(S0, j, ws \o << <<"depth", 100, "completed">> >>
                                  \o SynthesizeStereoStart,
                           StereoFirstPc(variant), 0, 1, 0)

\* fs.readdir of synthesizeStereo (original server) returns
StereoReaddirDone(j, ok) ==
    /\ Running(j)
    /\ pipeline[j].pc = "stereoReaddir"
    /\ response' = NoResponse
    /\ UNCHANGED <<variant, files, now>>
    /\ IF ok
       THEN Await(j, <<>>, "stereo", 0, 1, 0)
       ELSE Reject(j, "synthesizeStereo", ReaddirMessage)

\* ((i + 1) / steps) * target
StepProgress(i, steps, target) == ((i + 1) * target) \div steps

\* a timer of synthesizeStereo fires
StereoTimer(j) ==
    /\ Running(j)
    /\ pipeline[j].pc = "stereo"
    /\ response' = NoResponse
    /\ UNCHANGED <<variant, files, now>>
    /\ LET i == pipeline[j].i
           steps == StereoSteps(variant)
           ws == << <<"stereo", StepProgress(i, steps, 100), "processing">> >>
       IN IF i + 1 < steps
          THEN Await(j, ws, "stereo", i + 1, 1, 0)
          ELSE Await(j, ws \o << <<"stereo", 100, "completed">> >>
                           \o ExpandPanoramaStart,
                     "outpainting", 0, 1, 0)

\* a timer of expandPanorama fires
PanoramaTimer(j) ==
    /\ Running(j)
    /\ pipeline[j].pc = "outpainting"
    /\ response' = NoResponse
    /\ UNCHANGED <<variant, files, now>>
    /\ LET i == pipeline[j].i
           phase == pipeline[j].phase
           steps == PanoramaSteps(variant)
           ws == << <<"outpainting", StepProgress(i, steps, PanoramaStages[phase]),
                      "processing">> >>
       IN IF i + 1 < steps
          THEN Await(j, ws, "outpainting", i + 1, phase, 0)
          ELSE IF phase < Len(PanoramaStages)
          THEN Await(j, ws, "outpainting", 0, phase + 1, 0)
          ELSE Await(j, ws \o << <<"outpainting", 100, "completed">> >>
                           \o ApplyFoveatedBlurStart,
                     "blur", 0, 1, 0)

\* a timer of applyFoveatedBlur fires
BlurTimer(j) ==
    /\ Running(j)
    /\ pipeline[j].pc = "blur"
    /\ response' = NoResponse
    /\ UNCHANGED <<variant, files, now>>
    /\ LET i == pipeline[j].i
           steps == BlurSteps(variant)
           ws == << <<"blur", StepProgress(i, steps, 100), "processing">> >>
       IN IF i + 1 < steps
          THEN Await(j, ws, "blur", i + 1, 1, 0)
          ELSE Await(j, ws \o << <<"blur", 100, "completed">> >>
                           \o UpscaleAndEnhanceStart,
                     "upscaling", 0, 1, 0)

\* a timer of upscaleAndEnhance fires; after the last one processVideo
\* returns true
UpscaleTimer(j) ==
    /\ Running(j)
    /\ pipeline[j].pc = "upscaling"
    /\ response' = NoResponse
    /\ UNCHANGED <<variant, files, now>>
    /\ LET i == pipeline[j].i
           phase == pipeline[j].phase
           steps == UpscaleSteps(variant)
           ws == << <<"upscaling", StepProgress(i, steps, UpscaleStages[phase]),
                      "processing">> >>
       IN IF i + 1 < steps
          THEN Await(j, ws, "upscaling", i + 1, phase, 0)
          ELSE IF phase < Len(UpscaleStages)
          THEN Await(j, ws, "upscaling", 0, phase + 1, 0)
          ELSE Resolve(j, ws \o << <<"upscaling", 100, "completed">> >>)

----------------------------------------------------------------------------
(* GET /api/status/:jobId, GET /api/download/:jobId, GET /api/jobs *)

\* a status handler that does not know the jobs that failed
StatusResponseHidesFailed(id) ==
    IF id \notin DOMAIN jobs \/ jobs[id].status = "failed"
    THEN [op |-> "status", code |-> 404, id |-> id, body |-> <<"Job not found">>]
    ELSE [op |-> "status", code |-> 200, id |-> id,
          body |-> << [id |-> jobs[id].id,
                       status |-> jobs[id].status,
                       stages |-> StagesOf(id),
                       uploadTime |-> jobs[id].uploadTime,
                       lastUpdated |-> jobs[id].lastUpdated,
                       completedAt |-> jobs[id].completedAt,
                       failedAt |-> jobs[id].failedAt,
                       error |-> jobs[id].error] >>]

\* GET /api/status/:jobId
StatusResponse(id) ==
    IF id \notin DOMAIN jobs
    THEN [op |-> "status", code |-> 404, id |-> id, body |-> <<"Job not found">>]
    ELSE [op |-> "status", code |-> 200, id |-> id,
          body |-> << [id |-> jobs[id].id,
                       status |-> jobs[id].status,
                       stages |-> StagesOf(id),
                       uploadTime |-> jobs[id].uploadTime,
                       lastUpdated |-> jobs[id].lastUpdated,
                       completedAt |-> jobs[id].completedAt,
                       failedAt |-> jobs[id].failedAt,
                       error |-> jobs[id].error] >>]

GetStatus(id) ==
    /\ response' = StatusResponse(id)
    /\ UNCHANGED <<variant, jobs, pipeline, files, now>>

\* a download handler without the check of job.status
DownloadResponseNoStatusCheck(id) ==
    IF id \notin DOMAIN jobs
    THEN [op |-> "download", code |-> 404, id |-> id, body |-> <<"Job not found">>]
    ELSE IF FinalOutput \in files[id]
    THEN [op |-> "download", code |-> 200, id |-> id, body |-> <<FinalOutput>>]
    ELSE [op |-> "download", code |-> 404, id |-> id, body |-> <<"Output file not found">>]

DownloadResponse(id) ==
    IF id \notin DOMAIN jobs
    THEN [op |-> "download", code |-> 404, id |-> id, body |-> <<"Job not found">>]
    ELSE IF jobs[id].status # "completed"
    THEN [op |-> "download", code |-> 400, id |-> id, body |-> <<"Job not completed yet">>]
    ELSE IF FinalOutput \in files[id]
    THEN [op |-> "download", code |-> 200, id |-> id, body |-> <<FinalOutput>>]
    ELSE [op |-> "download", code |-> 404, id |-> id, body |-> <<"Output file not found">>]

\* the handler awaits fs.access before it answers; neither the status of a
\* completed job nor the files it looks for change while it waits
Download(id) ==
    /\ response' = DownloadResponse(id)
    /\ UNCHANGED <<variant, jobs, pipeline, files, now>>

JobsResponse ==
    [op |-> "jobs", code |-> 200, id |-> 0,
     body |-> << [j \in DOMAIN jobs |->
                    [id |-> jobs[j].id,
                     status |-> jobs[j].status,
                     uploadTime |-> jobs[j].uploadTime,
                     lastUpdated |-> jobs[j].lastUpdated]] >>]

ListJobs ==
    /\ response' = JobsResponse
    /\ UNCHANGED <<variant, jobs, pipeline, files, now>>

----------------------------------------------------------------------------
(* The server *)

Init ==
    /\ variant \in Variants
    /\ jobs = EmptyMap
    /\ pipeline = EmptyMap
    /\ files = [j \in JobIds |-> {}]
    /\ now = 0
    /\ response = NoResponse

Next ==
    \/ \E hasFile \in BOOLEAN : Upload(hasFile)
    \/ \E j \in JobIds, ok \in BOOLEAN : MkdirDone(j, ok)
    \/ \E j \in JobIds, ev \in ProgressEvents : FfmpegProgress(j, ev)
    \/ \E j \in JobIds : FfmpegEnd(j)
    \/ \E j \in JobIds : FfmpegError(j)
    \/ \E j \in JobIds, ok \in BOOLEAN, n \in FrameCounts : ReaddirDone(j, ok, n)
    \/ \E j \in JobIds, ok \in BOOLEAN : DepthMapDone(j, ok)
    \/ \E j \in JobIds, ok \in BOOLEAN : StereoReaddirDone(j, ok)
    \/ \E j \in JobIds : StereoTimer(j)
    \/ \E j \in JobIds : PanoramaTimer(j)
    \/ \E j \in JobIds : BlurTimer(j)
    \/ \E j \in JobIds : UpscaleTimer(j)
    \/ \E id \in JobIds \cup {UnknownId} : GetStatus(id)
    \/ \E id \in JobIds \cup {UnknownId} : Download(id)
    \/ ListJobs

Spec == Init /\ [][Next]_vars

\* The 'progress' listener of the frame-extraction ffmpeg run is never
\* removed.  An executor that reports progress once more after it has ended
\* ('end' or 'error') reaches updateProgress with the default status.
LateProgress(j, ev) ==
    /\ Running(j)
    /\ pipeline[j].pc \notin {"new", "initialize", "extractFrames"}
    \* the run was started: initialize did not throw
    /\ pipeline[j].threw # "initialize"
    /\ Await(j, << <<"depth", ExtractProgress(ev), "processing">> >>,
             pipeline[j].pc, pipeline[j].i, pipeline[j].phase, pipeline[j].total)
    /\ response' = NoResponse
    /\ UNCHANGED <<variant, files, now>>

NextLate ==
    \/ Next
    \/ \E j \in JobIds, ev \in ProgressEvents : LateProgress(j, ev)

SpecLate == Init /\ [][NextLate]_vars

\* An operation the pipeline of job j awaits returns: the fs calls and the
\* ffmpeg runs end or fail, the timers fire.  The 'progress' events of a run
\* are not among them: a run may report any number of them before it ends.
Settle(j) ==
    \/ \E ok \in BOOLEAN : MkdirDone(j, ok)
    \/ FfmpegEnd(j)
    \/ FfmpegError(j)
    \/ \E ok \in BOOLEAN, n \in FrameCounts : ReaddirDone(j, ok, n)
    \/ \E ok \in BOOLEAN : DepthMapDone(j, ok)
    \/ \E ok \in BOOLEAN : StereoReaddirDone(j, ok)
    \/ StereoTimer(j)
    \/ PanoramaTimer(j)
    \/ BlurTimer(j)
    \/ UpscaleTimer(j)

\* the positions at which processVideo awaits one of the above
AwaitedPcs ==
    {"initialize", "extractFrames", "readdir", "depthMap", "stereoReaddir",
     "stereo", "outpainting", "blur", "upscaling"}

\* processVideo of job j awaits an operation that will call back
Awaiting(j) ==
    /\ j \in DOMAIN pipeline
    /\ pipeline[j].pc \in AwaitedPcs

\* Weak fairness of Settle(j), WF_vars(Settle(j)), written out: Settle(j) is
\* enabled, and changes the state, exactly in the states of Awaiting(j).
SettleFair(j) == []<>(~Awaiting(j)) \/ []<><<Settle(j)>>_vars

\* uploads and the callbacks of the pipelines; the GET handlers, which write
\* nothing the pipelines read, are left out
NextRun ==
    \/ \E hasFile \in BOOLEAN : Upload(hasFile)
    \/ \E j \in JobIds : Settle(j)
    \/ \E j \in JobIds, ev \in ProgressEvents : FfmpegProgress(j, ev)

\* the server when every operation a pipeline awaits returns in the end
SpecFair == Init /\ [][NextRun]_vars /\ \A j \in JobIds : SettleFair(j)

----------------------------------------------------------------------------
(* Several jobs side by side: the optimized server, uploads and pipeline
   callbacks only *)

UploadConcurrent == UploadAmong(ConcurrentIds, TRUE)

InitMany ==
    /\ variant = "optimized"
    /\ jobs = EmptyMap
    /\ pipeline = EmptyMap
    /\ files = [j \in ConcurrentIds |-> {}]
    /\ now = 0
    /\ response = NoResponse

NextMany ==
    \/ UploadConcurrent
    \/ \E j \in ConcurrentIds, ok \in BOOLEAN : MkdirDone(j, ok)
    \/ \E j \in ConcurrentIds, ev \in ProgressEvents : FfmpegProgress(j, ev)
    \/ \E j \in ConcurrentIds : FfmpegEnd(j)
    \/ \E j \in ConcurrentIds : FfmpegError(j)
    \/ \E j \in ConcurrentIds, ok \in BOOLEAN, n \in FrameCounts : ReaddirDone(j, ok, n)
    \/ \E j \in ConcurrentIds, ok \in BOOLEAN : DepthMapDone(j, ok)
    \/ \E j \in ConcurrentIds : StereoTimer(j)
    \/ \E j \in ConcurrentIds : PanoramaTimer(j)
    \/ \E j \in ConcurrentIds : BlurTimer(j)
    \/ \E j \in ConcurrentIds : UpscaleTimer(j)

SpecMany == InitMany /\ [][NextMany]_vars

----------------------------------------------------------------------------
(* The .then and .catch handlers of POST /api/upload on their own: the two
   functions applied to the entry of a job at any reading of the clock, any
   number of times. *)

ErrorMessages == {NoFramesMessage, MkdirMessage, ReaddirMessage, FfmpegMessage}

\* the clock moves on
Tick ==
    /\ now < MaxTime
    /\ now' = now + 1
    /\ UNCHANGED <<variant, jobs, pipeline, files, response>>

\* the body of the .then handler runs on the entry of job j
ThenApplied(j) ==
    /\ j \in DOMAIN jobs
    /\ jobs' = [jobs EXCEPT ![j] = ThenHandler(jobs[j])]
    /\ UNCHANGED <<variant, pipeline, files, now, response>>

\* the body of the .catch handler runs on the entry of job j
CatchApplied(j, message) ==
    /\ j \in DOMAIN jobs
    /\ jobs' = [jobs EXCEPT ![j] = CatchHandler(jobs[j], message)]
    /\ UNCHANGED <<variant, pipeline, files, now, response>>

InitFinalize ==
    /\ variant \in Variants
    /\ now = 0
    /\ jobs = [j \in JobIds |-> NewJob(j)]
    /\ pipeline = [j \in JobIds |-> NewPipeline(j)]
    /\ files = [j \in JobIds |-> {}]
    /\ response = NoResponse

NextFinalize ==
    \/ Tick
    \/ \E j \in JobIds : ThenApplied(j)
    \/ \E j \in JobIds, message \in ErrorMessages : CatchApplied(j, message)

SpecFinalize == InitFinalize /\ [][NextFinalize]_vars

----------------------------------------------------------------------------
(* The life of one job with a clock that moves: between any two callbacks
   the reading of new Date() may have grown.  Jobs do not touch each other's
   entries, so the first upload and its pipeline are followed. *)

\* the first upload
UploadFirst == \E hasFile \in BOOLEAN : UploadAmong({1}, hasFile)

NextClock ==
    \/ UploadFirst
    \/ \E j \in JobIds : Settle(j)
    \/ \E j \in JobIds, ev \in ProgressEvents : FfmpegProgress(j, ev)
    \/ Tick

SpecClock == Init /\ [][NextClock]_vars

----------------------------------------------------------------------------
(* Properties *)

StageIndexes == 1..Len(ConstructorStages)

AllStagesAre(j, status, progress) ==
    \A k \in DOMAIN StagesOf(j) :
        /\ StagesOf(j)[k].status = status
        /\ StagesOf(j)[k].progress = progress

\* the stage a method of the pipeline reports into
StageOfMethod(fn) ==
    CASE fn = "extractFrames" -> "depth"
      [] fn = "generateDepthMaps" -> "depth"
      [] fn = "synthesizeStereo" -> "stereo"
      [] fn = "expandPanorama" -> "outpainting"
      [] fn = "applyFoveatedBlur" -> "blur"
      [] fn = "upscaleAndEnhance" -> "upscaling"
      [] OTHER -> "none"

\* C1: while the response of an accepted upload is the one being returned,
\* the job it names is in the map with status processing, all of its stages
\* are pending with progress 0, and its pipeline has written nothing: it
\* waits for the first fs.mkdir of initialize.
C1_SubmitReturnsFreshJob ==
    (response.op = "upload" /\ response.code = 200) =>
        /\ response.id \in DOMAIN jobs
        /\ jobs[response.id].status = "processing"
        /\ AllStagesAre(response.id, "pending", 0)
        /\ ~jobs[response.id].stagesIsPipeline
        /\ pipeline[response.id].stages = ConstructorStages
        /\ pipeline[response.id].pc = "initialize"
        /\ pipeline[response.id].i = 0

C1_Witness ==
    /\ response.op = "upload"
    /\ response.code = 200
    /\ response.id \in DOMAIN jobs

\* C2: a job whose processVideo resolved is completed, and a completed job
\* has every stage completed with progress 100, completedAt set and neither
\* an error nor failedAt.
C2_CompletedJobIsComplete ==
    \A j \in DOMAIN jobs :
        /\ pipeline[j].pc = "resolved" => jobs[j].status = "completed"
        /\ jobs[j].status = "completed" =>
              /\ AllStagesAre(j, "completed", 100)
              /\ jobs[j].completedAt # Undefined
              /\ jobs[j].error = Undefined
              /\ jobs[j].failedAt = Undefined

C2_Witness ==
    \E j \in DOMAIN jobs :
        /\ pipeline[j].pc = "resolved"
        /\ jobs[j].status = "completed"

\* C3: when a stage method of the pipeline has failed, the stage it reports
\* into has status failed (with whatever progress it had), the job is failed
\* and carries the message of the error.
C3_FailedStageIsMarked ==
    \A j \in DOMAIN jobs :
        (pipeline[j].pc = "rejected" /\ StageOfMethod(pipeline[j].threw) # "none") =>
            /\ jobs[j].status = "failed"
            /\ jobs[j].error = Defined(pipeline[j].thrown)
            /\ StagesOf(j)[FindStage(StagesOf(j), StageOfMethod(pipeline[j].threw))].status
                   = "failed"

\* C4: a download response for an id that is not in the map is 404 "Job not
\* found"; for a job of the map that is not completed it is 400 "Job not
\* completed yet", never a file.
C4_DownloadRefused ==
    response.op = "download" =>
        /\ response.id \notin DOMAIN jobs =>
              (response.code = 404 /\ response.body = <<"Job not found">>)
        /\ (response.id \in DOMAIN jobs /\ jobs[response.id].status # "completed") =>
              (response.code = 400 /\ response.body = <<"Job not completed yet">>)

C4_Witness ==
    /\ response.op = "download"
    /\ response.id \in DOMAIN jobs
    /\ jobs[response.id].status = "failed"
    /\ response.code = 400

\* C5: a completed job has its final_vr180.mp4, and a download response for
\* a completed job is the file, not a 404.
C5_CompletedHasOutput ==
    \A j \in DOMAIN jobs :
        jobs[j].status = "completed" =>
            /\ FinalOutput \in files[j]
            /\ (response.op = "download" /\ response.id = j) => response.code = 200

\* C6: the status of a job changes only from processing, and only to
\* completed or failed.
C6_StatusMonotonic ==
    [][\A j \in DOMAIN jobs :
          jobs'[j].status # jobs[j].status =>
              /\ jobs[j].status = "processing"
              /\ jobs'[j].status \in {"completed", "failed"}]_vars

C6_Witness ==
    \E j \in DOMAIN jobs :
        /\ jobs[j].status = "failed"
        /\ jobs[j].failedAt # Undefined
        /\ pipeline[j].threw = "extractFrames"

\* C7: a stage after a pending stage is pending, and a stage that is no
\* longer pending follows a stage that is completed or failed.
C7_StagesInOrder ==
    \A j \in DOMAIN jobs :
        \A k \in 1..(Len(StagesOf(j)) - 1) :
            /\ StagesOf(j)[k].status = "pending" => StagesOf(j)[k + 1].status = "pending"
            /\ StagesOf(j)[k + 1].status # "pending" =>
                  StagesOf(j)[k].status \in {"completed", "failed"}

C7_Witness ==
    \E j \in DOMAIN jobs :
        /\ StagesOf(j)[2].status = "completed"
        /\ StagesOf(j)[3].status = "processing"
        /\ StagesOf(j)[4].status = "pending"

\* C8: the progress of every stage is within 0..100.
C8_ProgressInRange ==
    \A j \in DOMAIN jobs :
        \A k \in DOMAIN StagesOf(j) :
            /\ StagesOf(j)[k].progress >= 0
            /\ StagesOf(j)[k].progress <= 100

\* C9: a stage that is completed stays completed, whatever is written next.
C9_CompletedStageStays ==
    [][\A j \in DOMAIN jobs :
          \A k \in DOMAIN StagesOf(j) :
              StagesOf(j)[k].status = "completed" =>
                  StagesOf(j)'[k].status = "completed"]_vars

\* C10: a job whose processVideo rejected is failed, with failedAt set, the
\* message of the error that was thrown as its error and no completedAt; the
\* upload that started it was answered 200 and no upload is answered 500.
\* Only such a job is failed.
C10_RejectionFailsJob ==
    /\ \A j \in DOMAIN jobs :
          /\ pipeline[j].pc = "rejected" =>
                /\ jobs[j].status = "failed"
                /\ jobs[j].failedAt # Undefined
                /\ jobs[j].error = Defined(pipeline[j].thrown)
                /\ jobs[j].completedAt = Undefined
          /\ jobs[j].status = "failed" => pipeline[j].pc = "rejected"
    /\ response.op = "upload" => response.code \in {200, 400}

C10_Witness ==
    \E j \in DOMAIN jobs :
        /\ pipeline[j].pc = "rejected"
        /\ pipeline[j].threw = "generateDepthMaps"
        /\ pipeline[j].thrown = NoFramesMessage

\* C11: a step that changes the record or the pipeline of one job leaves the
\* record, the pipeline and the files of every other job as they were; and
\* every job whose processVideo resolved is completed with all of its stages
\* completed, whatever the other jobs did meanwhile.
C11_JobsIndependent ==
    /\ [][\A a \in DOMAIN jobs :
            (jobs'[a] # jobs[a] \/ pipeline'[a] # pipeline[a]) =>
                \A b \in DOMAIN jobs \ {a} :
                    /\ jobs'[b] = jobs[b]
                    /\ pipeline'[b] = pipeline[b]
                    /\ files'[b] = files[b]]_vars
    /\ [](\A j \in DOMAIN jobs :
            pipeline[j].pc = "resolved" =>
                (jobs[j].status = "completed" /\ AllStagesAre(j, "completed", 100)))

\* more than one job, all of them completed
C11_Witness ==
    /\ DOMAIN jobs = ConcurrentIds
    /\ Cardinality(DOMAIN jobs) > 1
    /\ \A j \in DOMAIN jobs : jobs[j].status = "completed"

\* C12: when every operation a pipeline awaits returns in the end, a job
\* that is in the map gets completed or failed, and a job that is completed
\* or failed stays in the map with that very status.
C12_EventuallyTerminal ==
    /\ \A j \in JobIds :
        (j \in DOMAIN jobs) ~>
            (j \in DOMAIN jobs /\ jobs[j].status \in {"completed", "failed"})
    /\ [][\A j \in DOMAIN jobs :
            jobs[j].status \in {"completed", "failed"} =>
                (j \in DOMAIN jobs' /\ jobs'[j].status = jobs[j].status)]_vars

C12_Witness ==
    \E j \in DOMAIN jobs :
        /\ jobs[j].status \in {"completed", "failed"}
        /\ pipeline[j].pc \in {"resolved", "rejected"}
        /\ jobs[j].lastUpdated <= now

\* C13: GET /api/status answers 404 exactly for the ids that are not in the
\* map, and no step takes a job out of the map; the answer for a failed job
\* has status failed, the error's message, the time of failure and the stage
\* list with the progress written last, and the status, the message and the
\* time of failure never change afterwards.
C13_StatusQueryable ==
    /\ [](response.op = "status" =>
            /\ response.code \in {200, 404}
            /\ response.code = 404 <=> response.id \notin DOMAIN jobs
            /\ (response.id \in DOMAIN jobs /\ jobs[response.id].status = "failed") =>
                  /\ response.body[1].status = "failed"
                  /\ response.body[1].error = Defined(pipeline[response.id].thrown)
                  /\ response.body[1].failedAt # Undefined
                  /\ response.body[1].stages = pipeline[response.id].stages)
    /\ [][/\ DOMAIN jobs \subseteq DOMAIN jobs'
          /\ \A j \in DOMAIN jobs :
                jobs[j].status = "failed" =>
                    /\ jobs'[j].status = "failed"
                    /\ jobs'[j].error = jobs[j].error
                    /\ jobs'[j].failedAt = jobs[j].failedAt]_vars

\* a status query answered for a job that failed
C13_Witness ==
    /\ response.op = "status"
    /\ response.code = 200
    /\ response.body[1].status = "failed"
    /\ response.body[1].error # Undefined

\* the stage methods in the order processVideo awaits them
PipelineMethods ==
    << "extractFrames", "generateDepthMaps", "synthesizeStereo",
       "expandPanorama", "applyFoveatedBlur", "upscaleAndEnhance" >>

\* C14: the stage list of every job has one entry for each of the six stage
\* methods of processVideo, and no two of the methods report into the same
\* entry.
C14_OneEntryPerStep ==
    \A j \in DOMAIN jobs :
        /\ Len(StagesOf(j)) = Len(PipelineMethods)
        /\ \A a, b \in DOMAIN PipelineMethods :
              a # b =>
                  FindStage(StagesOf(j), StageOfMethod(PipelineMethods[a]))
                      # FindStage(StagesOf(j), StageOfMethod(PipelineMethods[b]))

\* C15: the .then handler applied to a job that is completed, and the .catch
\* handler applied with the same message to a job that is failed, leave the
\* entry of the job as it was, completedAt and failedAt included.
C15_FinalizeIdempotent ==
    [][\A j \in DOMAIN jobs :
          /\ (jobs[j].status = "completed" /\ ThenApplied(j)) => jobs'[j] = jobs[j]
          /\ \A message \in ErrorMessages :
                (/\ jobs[j].status = "failed"
                 /\ jobs[j].error = Defined(message)
                 /\ CatchApplied(j, message)) => jobs'[j] = jobs[j]]_vars

\* C16: once a method of the pipeline has thrown, processVideo stays
\* rejected, and every stage after the one the method reports into is
\* pending with progress 0 (every stage, when initialize threw).
C16_FailFast ==
    /\ [](\A j \in DOMAIN jobs :
            pipeline[j].pc = "rejected" =>
                \A k \in DOMAIN StagesOf(j) :
                    k > FindStage(StagesOf(j), StageOfMethod(pipeline[j].threw)) =>
                        /\ StagesOf(j)[k].status = "pending"
                        /\ StagesOf(j)[k].progress = 0)
    /\ [][\A j \in DOMAIN jobs :
            pipeline[j].pc = "rejected" => pipeline'[j].pc = "rejected"]_vars

\* synthesizeStereo threw after the depth stage was completed
C16_Witness ==
    \E j \in DOMAIN jobs :
        /\ pipeline[j].pc = "rejected"
        /\ pipeline[j].threw = "synthesizeStereo"
        /\ StagesOf(j)[1].status = "completed"
        /\ StagesOf(j)[2].status = "processing"
        /\ StagesOf(j)[3].status = "pending"

\* C17: a step of the pipeline never lowers the progress of a stage that is
\* processing.  The steps taken while the frame-extraction ffmpeg run is
\* reporting are left out: their values are the run's own.
C17_ProgressNonDecreasing ==
    [][\A j \in DOMAIN jobs :
          pipeline[j].pc # "extractFrames" =>
              \A k \in DOMAIN StagesOf(j) :
                  StagesOf(j)[k].status = "processing" =>
                      StagesOf(j)'[k].progress >= StagesOf(j)[k].progress]_vars

\* C18 as claimed: no step of the frame loop of generateDepthMaps fails the
\* job, and generateDepthMaps throws only "No frames extracted from video",
\* which then is the error of the failed job.
C18_OnlyZeroFramesFails ==
    /\ [](\A j \in DOMAIN jobs :
            pipeline[j].threw = "generateDepthMaps" =>
                /\ pipeline[j].thrown = NoFramesMessage
                /\ jobs[j].status = "failed"
                /\ jobs[j].error = Defined(NoFramesMessage))
    /\ [][\A j \in DOMAIN jobs :
            pipeline[j].pc = "depthMap" =>
                /\ pipeline'[j].pc # "rejected"
                /\ jobs'[j].status = "processing"]_vars

\* C18: no step of the frame loop of generateDepthMaps fails the job,
\* whichever depth maps fail, and the step that leaves the loop writes the
\* depth stage completed at 100.  generateDepthMaps throws only when no png
\* frame is found or when fs.readdir of the frames directory fails, and the
\* message thrown then is the error of the failed job.
C18_FrameErrorsSwallowed ==
    /\ [](\A j \in DOMAIN jobs :
            pipeline[j].threw = "generateDepthMaps" =>
                /\ pipeline[j].thrown \in {NoFramesMessage, ReaddirMessage}
                /\ jobs[j].status = "failed"
                /\ jobs[j].error = Defined(pipeline[j].thrown))
    /\ [][\A j \in DOMAIN jobs :
            pipeline[j].pc = "depthMap" =>
                /\ pipeline'[j].pc # "rejected"
                /\ jobs'[j].status = "processing"
                /\ pipeline'[j].pc # "depthMap" =>
                      /\ StagesOf(j)'[1].status = "completed"
                      /\ StagesOf(j)'[1].progress = 100]_vars

\* the depth stage completed, the job not failed, and no depth map was made
C18_Witness ==
    \E j \in DOMAIN jobs :
        /\ StagesOf(j)[1].status = "completed"
        /\ DepthPattern \notin files[j]
        /\ jobs[j].status # "failed"
        /\ pipeline[j].pc \notin {"depthMap", "readdir"}

\* C19: the stage list a reader of the job finds equals the list of the
\* pipeline of the job, entry by entry, before the first updateProgress
\* (two lists) and after it (one list); and the list in a 200 answer of GET
\* /api/status is the list of the pipeline.
C19_StatusShowsPipelineStages ==
    /\ \A j \in DOMAIN jobs :
          /\ Len(StagesOf(j)) = Len(pipeline[j].stages)
          /\ \A k \in DOMAIN StagesOf(j) :
                /\ StagesOf(j)[k].name = pipeline[j].stages[k].name
                /\ StagesOf(j)[k].progress = pipeline[j].stages[k].progress
                /\ StagesOf(j)[k].status = pipeline[j].stages[k].status
    /\ (response.op = "status" /\ response.code = 200) =>
          response.body[1].stages = pipeline[response.id].stages

\* a status answer that shows what the pipeline has written
C19_Witness ==
    /\ response.op = "status"
    /\ response.code = 200
    /\ jobs[response.id].stagesIsPipeline
    /\ \E k \in DOMAIN response.body[1].stages :
          response.body[1].stages[k].progress > 0

\* C20: the stage list of a job is some stages completed at 100, then at
\* most one stage in any other state, then stages pending at 0; so at most
\* one stage is processing.
C20_StageListShape ==
    \A j \in DOMAIN jobs :
        /\ \E p \in 0..Len(StagesOf(j)) :
              /\ \A k \in 1..p :
                    /\ StagesOf(j)[k].status = "completed"
                    /\ StagesOf(j)[k].progress = 100
              /\ \A k \in (p + 2)..Len(StagesOf(j)) :
                    /\ StagesOf(j)[k].status = "pending"
                    /\ StagesOf(j)[k].progress = 0
        /\ Cardinality({k \in DOMAIN StagesOf(j) :
                            StagesOf(j)[k].status = "processing"}) <= 1

\* completed stages, one stage under way, pending stages
C20_Witness ==
    \E j \in DOMAIN jobs :
        /\ StagesOf(j)[3].status = "completed"
        /\ StagesOf(j)[4].status = "processing"
        /\ StagesOf(j)[4].progress > 0
        /\ StagesOf(j)[5].status = "pending"

\* C21: the stage list in a 200 answer of GET /api/status is the list of
\* the job as the last callback left it, and each of its entries holds a
\* pair one call of updateProgress wrote, or the pair it was created with: a
\* pending stage has progress 0, a completed stage has progress 100, and
\* there is no other status than pending, processing and completed.  (The
\* answer of GET /api/jobs carries no stages.)
C21_NoTornStage ==
    (response.op = "status" /\ response.code = 200) =>
        /\ response.body[1].stages = StagesOf(response.id)
        /\ \A k \in DOMAIN response.body[1].stages :
              LET stage == response.body[1].stages[k]
              IN /\ stage.status \in {"pending", "processing", "completed"}
                 /\ stage.status = "pending" => stage.progress = 0
                 /\ stage.status = "completed" => stage.progress = 100

\* a status answer between two writes of the stereo stage
C21_Witness ==
    /\ response.op = "status"
    /\ response.code = 200
    /\ response.body[1].stages[1].status = "completed"
    /\ response.body[1].stages[2].status = "processing"
    /\ response.body[1].stages[2].progress > 0
    /\ pipeline[response.id].pc = "stereo"

\* the names of a stage list, in order
StageNames(stages) == [k \in DOMAIN stages |-> stages[k].name]

\* C22: the stage list of a job has the names, in the order, of the list the
\* job was created with, and no step changes the length of the list or the
\* name of an entry.
C22_StageNamesFixed ==
    /\ [](\A j \in DOMAIN jobs : StageNames(StagesOf(j)) = StageNames(NewJobStages))
    /\ [][\A j \in DOMAIN jobs :
            /\ Len(StagesOf(j)') = Len(StagesOf(j))
            /\ StageNames(StagesOf(j)') = StageNames(StagesOf(j))]_vars

\* a job whose pipeline has made all of its writes
C22_Witness ==
    \E j \in DOMAIN jobs :
        /\ jobs[j].stagesIsPipeline
        /\ pipeline[j].pc = "resolved"
        /\ StageNames(StagesOf(j)) = StageNames(NewJobStages)

\* C23: lastUpdated of a job never lies ahead of the clock and never goes
\* back, and a callback that changes the stage list of the pipeline of the
\* job leaves lastUpdated at the reading of the clock.
C23_LastUpdatedMonotonic ==
    /\ [](\A j \in DOMAIN jobs : jobs[j].lastUpdated <= now)
    /\ [][\A j \in DOMAIN jobs :
            /\ jobs'[j].lastUpdated >= jobs[j].lastUpdated
            /\ pipeline'[j].stages # pipeline[j].stages =>
                  jobs'[j].lastUpdated = now']_vars

\* a write made after the clock has moved on from the upload
C23_Witness ==
    \E j \in DOMAIN jobs :
        /\ jobs[j].stagesIsPipeline
        /\ jobs[j].lastUpdated > jobs[j].uploadTime
        /\ jobs[j].lastUpdated = now

\* C24: every job of the map has one pipeline, made for its own id, and no
\* step, an upload least of all, replaces the pipeline of a job or sets it
\* back to the start of processVideo; an accepted upload adds one job and
\* one pipeline under an id that was not in the map.
C24_OnePipelinePerJob ==
    /\ [](/\ DOMAIN pipeline = DOMAIN jobs
          /\ \A j \in DOMAIN jobs : pipeline[j].jobId = j /\ jobs[j].id = j)
    /\ [][/\ \A j \in DOMAIN pipeline :
                /\ j \in DOMAIN pipeline'
                /\ pipeline[j].pc # "initialize" => pipeline'[j].pc # "initialize"
          /\ Cardinality(DOMAIN pipeline') <= Cardinality(DOMAIN pipeline) + 1]_vars

\* a second upload accepted while the pipeline of the first is under way
C24_Witness ==
    /\ response.op = "upload"
    /\ response.code = 200
    /\ Cardinality(DOMAIN pipeline) > 1
    /\ \E j \in DOMAIN pipeline :
          /\ j # response.id
          /\ pipeline[j].pc \notin {"initialize", "resolved", "rejected"}

\* what a reader can tell of job j apart from progress values and times: the
\* status of each stage, the status of the job and its error
StatusView(j) ==
    [stages |-> [k \in DOMAIN StagesOf(j) |-> StagesOf(j)[k].status],
     status |-> jobs[j].status,
     error |-> jobs[j].error]

\* the stages of view v before k are completed and those after k are pending
StageIsCurrent(v, k) ==
    /\ \A m \in 1..(k - 1) : v.stages[m] = "completed"
    /\ \A m \in (k + 1)..Len(v.stages) : v.stages[m] = "pending"

\* The changes of the view that the optimized pipeline makes in one callback:
\* the first stage starts; a stage completes and the next one starts; the
\* last stage completes and the job with it; the job fails before any stage
\* has started (mkdir) or while the first stage is processing (ffmpeg,
\* readdir, no frames).  With stereoMayFail, the job may also fail with the
\* readdir message while the second stage is processing.
StatusStep(v, w, stereoMayFail) ==
    \/ /\ v.status = "processing" /\ w.status = "processing" /\ w.error = v.error
       /\ \/ /\ \A m \in DOMAIN v.stages : v.stages[m] = "pending"
             /\ w.stages = [v.stages EXCEPT ![1] = "processing"]
          \/ \E k \in 1..(Len(v.stages) - 1) :
                /\ StageIsCurrent(v, k) /\ v.stages[k] = "processing"
                /\ w.stages = [v.stages EXCEPT ![k] = "completed",
                                               ![k + 1] = "processing"]
    \/ /\ v.status = "processing" /\ w.status = "completed" /\ w.error = v.error
       /\ StageIsCurrent(v, Len(v.stages)) /\ v.stages[Len(v.stages)] = "processing"
       /\ w.stages = [v.stages EXCEPT ![Len(v.stages)] = "completed"]
    \/ /\ v.status = "processing" /\ w.status = "failed" /\ w.stages = v.stages
       /\ v.error = Undefined
       /\ \/ /\ \A m \in DOMAIN v.stages : v.stages[m] = "pending"
             /\ w.error = Defined(MkdirMessage)
          \/ /\ StageIsCurrent(v, 1) /\ v.stages[1] = "processing"
             /\ w.error \in {Defined(FfmpegMessage), Defined(ReaddirMessage),
                             Defined(NoFramesMessage)}
          \/ /\ stereoMayFail
             /\ StageIsCurrent(v, 2) /\ v.stages[2] = "processing"
             /\ w.error = Defined(ReaddirMessage)

\* C25 as claimed: a step of either server changes the view of a job, if at
\* all, in one of the ways the optimized pipeline changes it.
C25_VariantsSameStatusSteps ==
    [][\A j \in DOMAIN jobs :
          StatusView(j)' # StatusView(j) =>
              StatusStep(StatusView(j), StatusView(j)', FALSE)]_vars

\* C25: a step of either server changes the view of a job, if at all, in one
\* of the ways the optimized pipeline changes it, but for one more way of
\* the original server: the job fails with the message of fs.readdir while
\* the stereo stage is processing.
C25_VariantsDifferInStereoFailure ==
    [][\A j \in DOMAIN jobs :
          StatusView(j)' # StatusView(j) =>
              StatusStep(StatusView(j), StatusView(j)', variant = "original")]_vars

\* the original server through the fs.readdir of synthesizeStereo and on to
\* the end, as the optimized one
C25_Witness ==
    /\ variant = "original"
    /\ \E j \in DOMAIN jobs :
          /\ StatusView(j).status = "completed"
          /\ \A k \in DOMAIN StatusView(j).stages :
                StatusView(j).stages[k] = "completed"

\* C26: the callback that takes a stage out of pending leaves it processing
\* with progress 0, and the callback that makes a stage completed leaves it
\* with progress 100.
C26_FirstWriteIsZero ==
    [][\A j \in DOMAIN jobs :
          \A k \in DOMAIN StagesOf(j) :
              /\ (StagesOf(j)[k].status = "pending" /\ StagesOf(j)'[k].status # "pending") =>
                    /\ StagesOf(j)'[k].status = "processing"
                    /\ StagesOf(j)'[k].progress = 0
              /\ (StagesOf(j)[k].status # "completed" /\ StagesOf(j)'[k].status = "completed") =>
                    StagesOf(j)'[k].progress = 100]_vars

====
